---- MODULE Spec2Model ----
(***************************************************************************)
(* Model of the send flow of src/main.rs: the event loop run_app, the key  *)
(* handler handle_send_input, App::send_transaction and                    *)
(* App::refresh_balance, with the RPC node as a nondeterministic gateway.  *)
(***************************************************************************)
EXTENDS Integers, Sequences, FiniteSets, TLC

VARIABLES app, pc, key, screen, calls, result, pending, inflight

vars == <<app, pc, key, screen, calls, result, pending, inflight>>

(***************************************************************************)
(* Bounds.  The code bounds neither text field; the guards of the edit     *)
(* keys cap them.  PubkeyBytes stands for the 32 bytes of a Pubkey, scaled  *)
(* down so that addresses of the bounded length exist.  MaxAmountText      *)
(* bounds the amount texts on which the conversion to lamports is checked, *)
(* MaxPending the keys typed and not yet read.                             *)
(***************************************************************************)
MaxRecipientLen == 1
MaxAmountLen == 2
MaxAmountText == 4
MaxPending == 1
PubkeyBytes == 1

LAMPORTS_PER_SOL == 1000000000

(* Option<T>: None is the empty sequence, Some(v) the sequence <<v>>. *)
None == <<>>
Some(v) == <<v>>
IsSome(o) == o # <<>>

(***************************************************************************)
(* Keyboard input.  Characters are one-character strings; a text field is  *)
(* a sequence of characters.                                               *)
(***************************************************************************)
Chars == {"0", "1", ".", "y", "n", "q", "r"}

KeyChar(c) == [code |-> "Char", c |-> c]
KeyCode(k) == [code |-> k, c |-> ""]
Keys ==
    {KeyChar(c) : c \in Chars}
        \cup {KeyCode(k) : k \in {"Backspace", "Enter", "Esc", "Up", "Down"}}
NoKey == KeyCode("none")

(***************************************************************************)
(* Pubkey::from_str: the text is at most MAX_BASE58_LEN characters, every  *)
(* character is in the base58 alphabet, and the decoded bytes (one zero    *)
(* byte per leading '1', then the big-endian bytes of the base-58 value of  *)
(* the rest) number exactly PubkeyBytes.                                   *)
(***************************************************************************)
Base58Alphabet ==
    << "1", "2", "3", "4", "5", "6", "7", "8", "9",
       "A", "B", "C", "D", "E", "F", "G", "H", "J", "K", "L", "M", "N", "P",
       "Q", "R", "S", "T", "U", "V", "W", "X", "Y", "Z",
       "a", "b", "c", "d", "e", "f", "g", "h", "i", "j", "k", "m", "n", "o",
       "p", "q", "r", "s", "t", "u", "v", "w", "x", "y", "z" >>

IsBase58(c) == \E i \in 1..Len(Base58Alphabet) : Base58Alphabet[i] = c

Base58Index(c) == (CHOOSE i \in 1..Len(Base58Alphabet) : Base58Alphabet[i] = c) - 1

Zeros(n) == IF n = 0 THEN <<>> ELSE [i \in 1..n |-> 0]

RECURSIVE Pow(_, _)
Pow(b, n) == IF n = 0 THEN 1 ELSE b * Pow(b, n - 1)

(* Longest base58 text of PubkeyBytes bytes (44 for the 32 bytes of a Pubkey). *)
MAX_BASE58_LEN == CHOOSE k \in 1..(2 * PubkeyBytes) :
    /\ Pow(58, k) >= Pow(256, PubkeyBytes)
    /\ \A j \in 1..(k - 1) : Pow(58, j) < Pow(256, PubkeyBytes)

RECURSIVE LeadingOnes(_)
LeadingOnes(s) ==
    IF s # <<>> /\ Head(s) = "1" THEN 1 + LeadingOnes(Tail(s)) ELSE 0

RECURSIVE Base58Value(_)
Base58Value(s) ==
    IF s = <<>> THEN 0
    ELSE Base58Value(SubSeq(s, 1, Len(s) - 1)) * 58 + Base58Index(s[Len(s)])

RECURSIVE ByteLen(_)
ByteLen(n) == IF n = 0 THEN 0 ELSE 1 + ByteLen(n \div 256)

Base58DecodedLen(s) ==
    LET z == LeadingOnes(s)
    IN  z + ByteLen(Base58Value(SubSeq(s, z + 1, Len(s))))

(* The bytes a valid text decodes to, highest first. *)
RECURSIVE BytesOf(_)
BytesOf(n) == IF n = 0 THEN <<>> ELSE Append(BytesOf(n \div 256), n % 256)

Base58Decode(s) ==
    LET z == LeadingOnes(s)
    IN  Zeros(z) \o BytesOf(Base58Value(SubSeq(s, z + 1, Len(s))))

PubkeyFromStr(s) ==
    IF Len(s) > MAX_BASE58_LEN THEN [ok |-> FALSE, err |-> "WrongSize"]
    ELSE IF \E i \in 1..Len(s) : ~IsBase58(s[i]) THEN [ok |-> FALSE, err |-> "Invalid"]
    ELSE IF Base58DecodedLen(s) # PubkeyBytes THEN [ok |-> FALSE, err |-> "WrongSize"]
    ELSE [ok |-> TRUE, err |-> ""]

(***************************************************************************)
(* str::parse::<f64> on the amount text.  The amount field only ever holds *)
(* decimal digits and '.', and on such text the parse succeeds exactly     *)
(* when there is at least one digit and at most one '.'.                   *)
(***************************************************************************)
IsDigit(c) == c \in {"0", "1", "2", "3", "4", "5", "6", "7", "8", "9"}

RECURSIVE Count(_, _)
Count(s, c) ==
    IF s = <<>> THEN 0 ELSE (IF Head(s) = c THEN 1 ELSE 0) + Count(Tail(s), c)

ParseF64(s) ==
    /\ \A i \in 1..Len(s) : IsDigit(s[i]) \/ s[i] = "."
    /\ \E i \in 1..Len(s) : IsDigit(s[i])
    /\ Count(s, ".") <= 1

(***************************************************************************)
(* The value of the parse and of `(amount * LAMPORTS_PER_SOL as f64) as    *)
(* u64`.  An f64 is m * 2^e with m of at most 53 significant bits; m and   *)
(* the lamports are naturals written as little-endian sequences of bits,   *)
(* the empty sequence being 0.  The amount texts of the model are far from *)
(* the subnormal and the infinite range of f64, which is left out.         *)
(***************************************************************************)
F64_MANTISSA_DIGITS == 53
U64_BITS == 64

RECURSIVE BitsOf(_)
BitsOf(n) == IF n = 0 THEN <<>> ELSE <<n % 2>> \o BitsOf(n \div 2)

RECURSIVE Trim(_)
Trim(b) ==
    IF b # <<>> /\ b[Len(b)] = 0 THEN Trim(SubSeq(b, 1, Len(b) - 1)) ELSE b

RECURSIVE Inc(_)
Inc(b) ==
    IF b = <<>> THEN <<1>>
    ELSE IF Head(b) = 0 THEN <<1>> \o Tail(b)
    ELSE <<0>> \o Inc(Tail(b))

(* b * c for a machine integer c of at most 10^9. *)
RECURSIVE MulCarry(_, _, _, _)
MulCarry(b, i, c, carry) ==
    IF i > Len(b) THEN BitsOf(carry)
    ELSE <<(b[i] * c + carry) % 2>> \o MulCarry(b, i + 1, c, (b[i] * c + carry) \div 2)

MulSmall(b, c) == Trim(MulCarry(b, 1, c, 0))

(* Quotient and remainder of b by a machine integer d of at most 10^9, the *)
(* long division from the top bit down.                                    *)
RECURSIVE DivFrom(_, _, _, _)
DivFrom(b, i, d, acc) ==
    IF i = 0 THEN [q |-> Trim(acc.q), r |-> acc.r]
    ELSE IF 2 * acc.r + b[i] >= d
    THEN DivFrom(b, i - 1, d, [q |-> <<1>> \o acc.q, r |-> 2 * acc.r + b[i] - d])
    ELSE DivFrom(b, i - 1, d, [q |-> <<0>> \o acc.q, r |-> 2 * acc.r + b[i]])

DivSmall(b, d) == DivFrom(b, Len(b), d, [q |-> <<>>, r |-> 0])

(* The f64 nearest to n / d * 2^e, ties to the even mantissa: n is scaled  *)
(* by a power of two that leaves the quotient more than 53 bits, the bits  *)
(* below the 53 highest and the remainder decide the rounding.             *)
(* The zero bits put below n before the division. *)
Guard(n, d) ==
    IF F64_MANTISSA_DIGITS + 2 + Len(BitsOf(d)) > Len(n)
    THEN F64_MANTISSA_DIGITS + 2 + Len(BitsOf(d)) - Len(n)
    ELSE 0

(* Ties to even: the highest dropped bit is set, and a lower dropped bit, *)
(* the remainder of the division or the lowest kept bit is set as well.   *)
RoundsUp(q, r, drop) ==
    /\ q[drop] = 1
    /\ \/ r # 0
       \/ \E i \in 1..(drop - 1) : q[i] = 1
       \/ q[drop + 1] = 1

RoundAt(q, r, drop, e) ==
    [m |-> IF RoundsUp(q, r, drop)
           THEN Inc(SubSeq(q, drop + 1, Len(q)))
           ELSE SubSeq(q, drop + 1, Len(q)),
     e |-> e + drop]

RoundQuotient(scaled, e) ==
    RoundAt(scaled.q, scaled.r, Len(scaled.q) - F64_MANTISSA_DIGITS, e)

RoundToF64(n, d, e) ==
    IF n = <<>> THEN [m |-> <<>>, e |-> 0]
    ELSE RoundQuotient(DivSmall(Zeros(Guard(n, d)) \o n, d), e - Guard(n, d))

(* `f as u64`: the integer part, saturating at u64::MAX. *)
F64AsU64(f) ==
    LET whole == IF f.e >= 0 THEN Trim(Zeros(f.e) \o f.m)
                 ELSE SubSeq(f.m, 1 - f.e, Len(f.m))
    IN  IF Len(whole) > U64_BITS THEN [i \in 1..U64_BITS |-> 1] ELSE whole

(* The digits of the amount text as a natural, and the number of digits    *)
(* after the '.'.                                                          *)
DigitValue(c) == CHOOSE v \in 0..9 : <<"0", "1", "2", "3", "4", "5", "6", "7", "8", "9">>[v + 1] = c

RECURSIVE DecimalDigits(_)
DecimalDigits(s) ==
    IF s = <<>> THEN 0
    ELSE IF s[Len(s)] = "." THEN DecimalDigits(SubSeq(s, 1, Len(s) - 1))
    ELSE 10 * DecimalDigits(SubSeq(s, 1, Len(s) - 1)) + DigitValue(s[Len(s)])

FractionDigits(s) ==
    IF Count(s, ".") = 0 THEN 0
    ELSE Len(s) - (CHOOSE i \in 1..Len(s) : s[i] = ".")

(* amount_str.parse::<f64>() on a text that parses. *)
F64FromStr(s) == RoundToF64(BitsOf(DecimalDigits(s)), Pow(10, FractionDigits(s)), 0)

F64Mul(f, c) == RoundToF64(MulSmall(f.m, c), 1, f.e)

Lamports(s) == F64AsU64(F64Mul(F64FromStr(s), LAMPORTS_PER_SOL))

(* The amount texts of the model, and the conversion tabulated over those  *)
(* that parse.                                                             *)
AmountChars == {"0", "1", "2", "4", "."}

RECURSIVE TextsUpTo(_)
TextsUpTo(n) ==
    IF n = 0 THEN {<<>>}
    ELSE TextsUpTo(n - 1)
            \cup {Append(t, c) : t \in {u \in TextsUpTo(n - 1) : Len(u) = n - 1},
                                  c \in AmountChars}

AmountTexts ==
    TextsUpTo(IF MaxAmountLen > MaxAmountText THEN MaxAmountLen ELSE MaxAmountText)

LamportsOf == [s \in {t \in AmountTexts : ParseF64(t)} |-> Lamports(s)] @@ <<>>

(* String::pop *)
Pop(s) == IF s = <<>> THEN s ELSE SubSeq(s, 1, Len(s) - 1)

(***************************************************************************)
(* Program state.                                                          *)
(***************************************************************************)
AppStates == {"Home", "Wallet", "Send", "Receive", "Transactions", "Settings"}
SendInputModes == {"EditingRecipient", "EditingAmount", "Confirming"}

(* Mutant: a default that does not start at the recipient stage. *)
SendStateDefault_WrongMode ==
    [recipient |-> <<>>,
     amount |-> <<>>,
     input_mode |-> "EditingAmount",
     status |-> None,
     error |-> None]

SendStateDefault ==
    [recipient |-> <<>>,
     amount |-> <<>>,
     input_mode |-> "EditingRecipient",
     status |-> None,
     error |-> None]

(* balance is the f64 of SOL, kept as whole SOL and billionths (the "{:.9}" form). *)
LamportsToSol(lamports) ==
    [sol |-> lamports \div LAMPORTS_PER_SOL, nano |-> lamports % LAMPORTS_PER_SOL]

AppNew ==
    [state |-> "Home",
     selected_menu_item |-> 0,
     balance |-> LamportsToSol(0),
     send_state |-> SendStateDefault,
     last_tx_signature |-> None]

(***************************************************************************)
(* The RPC node: what each call of one event returns is an input.          *)
(***************************************************************************)
GatewayBalances == {0, 1500000000}
Signatures == {"sigA", "sigB"}

BalanceReplies ==
    {[ok |-> TRUE, lamports |-> b] : b \in GatewayBalances}
        \cup {[ok |-> FALSE, lamports |-> 0]}
Blockhashes == {"hashA", "hashB"}
BlockhashReplies ==
    {[ok |-> TRUE, hash |-> h] : h \in Blockhashes} \cup {[ok |-> FALSE, hash |-> ""]}
SendReplies ==
    {[ok |-> TRUE, signature |-> s, err |-> ""] : s \in Signatures}
        \cup {[ok |-> FALSE, signature |-> "", err |-> e] :
                e \in {"NetworkError", "RejectedByLedger"}}
Gateways ==
    [blockhash : BlockhashReplies, send : SendReplies, balance : BalanceReplies]

(* One call of the RPC client as the program saw it: the method, whether it *)
(* returned Ok, and the lamports, signature or blockhash it returned; for   *)
(* send_and_confirm_transaction also the transaction it was given, which is *)
(* a transfer of `transfer` lamports to the key `to` with recent blockhash  *)
(* `blockhash`.                                                             *)
Call(op, ok, lamports, signature) ==
    [op |-> op, ok |-> ok, lamports |-> lamports, signature |-> signature,
     blockhash |-> "", to |-> <<>>, transfer |-> <<>>]

BlockhashCall(reply) ==
    [Call("get_latest_blockhash", reply.ok, 0, "") EXCEPT !.blockhash = reply.hash]

(* The transaction of system_instruction::transfer(payer, to_pubkey, lamports) *)
(* signed with recent_blockhash, and the reply to its submission.              *)
SendCall(reply, a, recent_blockhash) ==
    [Call("send_and_confirm_transaction", reply.ok, 0, reply.signature) EXCEPT
        !.blockhash = recent_blockhash,
        !.to = Base58Decode(a.send_state.recipient),
        !.transfer = LamportsOf[a.send_state.amount]]

(* What a Result-returning method yields: the App it leaves, Ok or Err with *)
(* the message of the error, and the gateway calls it made, in order.       *)
Outcome(a, ok, err, cs) == [app |-> a, ok |-> ok, err |-> err, calls |-> cs]

(* Mutant: a failed query zeroes the stored balance. *)
refresh_balance_ZeroOnFailure(a, gw) ==
    IF gw.balance.ok
    THEN Outcome([a EXCEPT !.balance = LamportsToSol(gw.balance.lamports)],
                 TRUE, "", <<Call("get_balance", TRUE, gw.balance.lamports, "")>>)
    ELSE Outcome([a EXCEPT !.balance = LamportsToSol(0)],
                 FALSE, "Failed to fetch balance", <<Call("get_balance", FALSE, 0, "")>>)

refresh_balance(a, gw) ==
    IF gw.balance.ok
    THEN Outcome([a EXCEPT !.balance = LamportsToSol(gw.balance.lamports)],
                 TRUE, "", <<Call("get_balance", TRUE, gw.balance.lamports, "")>>)
    ELSE Outcome(a, FALSE, "Failed to fetch balance", <<Call("get_balance", FALSE, 0, "")>>)

(* The checks and calls of send_transaction after the recipient and the amount *)
(* have parsed; shared by the mutants below.                                   *)
SubmitMutant(a, gw, cleared, refresh) ==
    IF ~gw.blockhash.ok
    THEN Outcome(cleared, FALSE, "Failed to get recent blockhash",
                 <<BlockhashCall(gw.blockhash)>>)
    ELSE IF ~gw.send.ok
    THEN Outcome(cleared, FALSE, "Failed to send transaction",
                 <<BlockhashCall(gw.blockhash),
                   SendCall(gw.send, a, gw.blockhash.hash)>>)
    ELSE
        LET sent == [a EXCEPT
                        !.last_tx_signature = Some(gw.send.signature),
                        !.send_state.status =
                            Some("Transaction sent: " \o gw.send.signature)]
            refreshed == IF refresh THEN refresh_balance(sent, gw)
                         ELSE Outcome(sent, TRUE, "", <<>>)
        IN  Outcome(refreshed.app, TRUE, "",
                    <<BlockhashCall(gw.blockhash),
                      SendCall(gw.send, a, gw.blockhash.hash)>>
                        \o refreshed.calls)

(* Mutant: the last signature is cleared when an attempt starts. *)
send_transaction_ClearsSignature(a, gw) ==
    LET cleared == [a EXCEPT !.last_tx_signature = None]
    IN  IF ~PubkeyFromStr(a.send_state.recipient).ok
        THEN Outcome(cleared, FALSE, "Invalid recipient address", <<>>)
        ELSE IF ~ParseF64(a.send_state.amount)
        THEN Outcome(cleared, FALSE, "Invalid amount", <<>>)
        ELSE SubmitMutant(a, gw, cleared, TRUE)

(* Mutant: the blockhash is fetched before the amount is parsed. *)
send_transaction_FetchFirst(a, gw) ==
    IF ~PubkeyFromStr(a.send_state.recipient).ok
    THEN Outcome(a, FALSE, "Invalid recipient address", <<>>)
    ELSE IF ~gw.blockhash.ok
    THEN Outcome(a, FALSE, "Failed to get recent blockhash",
                 <<BlockhashCall(gw.blockhash)>>)
    ELSE IF ~ParseF64(a.send_state.amount)
    THEN Outcome(a, FALSE, "Invalid amount", <<BlockhashCall(gw.blockhash)>>)
    ELSE SubmitMutant(a, gw, a, TRUE)

(* Mutant: a failed blockhash fetch is ignored and the transaction is sent *)
(* with the default hash.                                                 *)
send_transaction_IgnoresFetchFailure(a, gw) ==
    IF ~PubkeyFromStr(a.send_state.recipient).ok
    THEN Outcome(a, FALSE, "Invalid recipient address", <<>>)
    ELSE IF ~ParseF64(a.send_state.amount)
    THEN Outcome(a, FALSE, "Invalid amount", <<>>)
    ELSE IF ~gw.send.ok
    THEN Outcome(a, FALSE, "Failed to send transaction",
                 <<BlockhashCall(gw.blockhash),
                   SendCall(gw.send, a, gw.blockhash.hash)>>)
    ELSE
        LET sent == [a EXCEPT
                        !.last_tx_signature = Some(gw.send.signature),
                        !.send_state.status =
                            Some("Transaction sent: " \o gw.send.signature)]
            refreshed == refresh_balance(sent, gw)
        IN  Outcome(refreshed.app, TRUE, "",
                    <<BlockhashCall(gw.blockhash),
                      SendCall(gw.send, a, gw.blockhash.hash)>>
                        \o refreshed.calls)

(* Mutant: no balance query after the submission. *)
send_transaction_NoRefresh(a, gw) ==
    IF ~PubkeyFromStr(a.send_state.recipient).ok
    THEN Outcome(a, FALSE, "Invalid recipient address", <<>>)
    ELSE IF ~ParseF64(a.send_state.amount)
    THEN Outcome(a, FALSE, "Invalid amount", <<>>)
    ELSE SubmitMutant(a, gw, a, FALSE)

send_transaction(a, gw) ==
    IF ~PubkeyFromStr(a.send_state.recipient).ok
    THEN Outcome(a, FALSE, "Invalid recipient address", <<>>)
    ELSE IF ~ParseF64(a.send_state.amount)
    THEN Outcome(a, FALSE, "Invalid amount", <<>>)
    ELSE IF ~gw.blockhash.ok
    THEN Outcome(a, FALSE, "Failed to get recent blockhash",
                 <<BlockhashCall(gw.blockhash)>>)
    ELSE IF ~gw.send.ok
    THEN Outcome(a, FALSE, "Failed to send transaction",
                 <<BlockhashCall(gw.blockhash),
                   SendCall(gw.send, a, gw.blockhash.hash)>>)
    ELSE
        LET sent == [a EXCEPT
                        !.last_tx_signature = Some(gw.send.signature),
                        !.send_state.status =
                            Some("Transaction sent: " \o gw.send.signature)]
            refreshed == refresh_balance(sent, gw)
        IN  Outcome(refreshed.app, TRUE, "",
                    <<BlockhashCall(gw.blockhash),
                      SendCall(gw.send, a, gw.blockhash.hash)>>
                        \o refreshed.calls)

(***************************************************************************)
(* handle_send_input: Result<bool>.  ret is "Ok(true)" (stay in the flow), *)
(* "Ok(false)" (leave it) or "Err" (the ? on send_transaction).            *)
(***************************************************************************)
Handled(a, ret, err, cs) == [app |-> a, ret |-> ret, err |-> err, calls |-> cs]

(* Mutant: Enter advances without looking at the recipient text. *)
EditingRecipientKey_EnterOnEmpty(a, k) ==
    IF k.code = "Char"
    THEN Handled([a EXCEPT !.send_state.recipient = Append(@, k.c)], "Ok(true)", "", <<>>)
    ELSE IF k.code = "Backspace"
    THEN Handled([a EXCEPT !.send_state.recipient = Pop(@)], "Ok(true)", "", <<>>)
    ELSE IF k.code = "Enter"
    THEN Handled([a EXCEPT !.send_state.input_mode = "EditingAmount",
                           !.send_state.error = None], "Ok(true)", "", <<>>)
    ELSE IF k.code = "Esc"
    THEN Handled(a, "Ok(false)", "", <<>>)
    ELSE Handled(a, "Ok(true)", "", <<>>)

EditingRecipientKey(a, k) ==
    IF k.code = "Char"
    THEN Handled([a EXCEPT !.send_state.recipient = Append(@, k.c)], "Ok(true)", "", <<>>)
    ELSE IF k.code = "Backspace"
    THEN Handled([a EXCEPT !.send_state.recipient = Pop(@)], "Ok(true)", "", <<>>)
    ELSE IF k.code = "Enter"
    THEN IF a.send_state.recipient # <<>>
         THEN Handled([a EXCEPT !.send_state.input_mode = "EditingAmount",
                                !.send_state.error = None], "Ok(true)", "", <<>>)
         ELSE Handled(a, "Ok(true)", "", <<>>)
    ELSE IF k.code = "Esc"
    THEN Handled(a, "Ok(false)", "", <<>>)
    ELSE Handled(a, "Ok(true)", "", <<>>)

(* The edit keys of the amount stage, shared by the mutants below. *)
AmountEditMutant(a, k, onEnter, onEsc) ==
    IF k.code = "Char" /\ (IsDigit(k.c) \/ k.c = ".")
    THEN Handled([a EXCEPT !.send_state.amount = Append(@, k.c)], "Ok(true)", "", <<>>)
    ELSE IF k.code = "Backspace"
    THEN Handled([a EXCEPT !.send_state.amount = Pop(@)], "Ok(true)", "", <<>>)
    ELSE IF k.code = "Enter"
    THEN onEnter
    ELSE IF k.code = "Esc"
    THEN onEsc
    ELSE Handled(a, "Ok(true)", "", <<>>)

(* Mutant: Esc at the amount stage leaves the flow. *)
EditingAmountKey_EscExits(a, k) ==
    AmountEditMutant(a, k,
        IF a.send_state.amount # <<>>
        THEN Handled([a EXCEPT !.send_state.input_mode = "Confirming",
                               !.send_state.error = None], "Ok(true)", "", <<>>)
        ELSE Handled(a, "Ok(true)", "", <<>>),
        Handled(a, "Ok(false)", "", <<>>))

(* Mutant: Enter at the amount stage advances on an empty amount too. *)
EditingAmountKey_EnterOnEmpty(a, k) ==
    AmountEditMutant(a, k,
        Handled([a EXCEPT !.send_state.input_mode = "Confirming",
                          !.send_state.error = None], "Ok(true)", "", <<>>),
        Handled([a EXCEPT !.send_state.input_mode = "EditingRecipient"],
                "Ok(true)", "", <<>>))

(* Mutant: Enter at the amount stage advances only when the amount parses. *)
EditingAmountKey_ParsesOnEnter(a, k) ==
    AmountEditMutant(a, k,
        IF ParseF64(a.send_state.amount)
        THEN Handled([a EXCEPT !.send_state.input_mode = "Confirming",
                               !.send_state.error = None], "Ok(true)", "", <<>>)
        ELSE Handled(a, "Ok(true)", "", <<>>),
        Handled([a EXCEPT !.send_state.input_mode = "EditingRecipient"],
                "Ok(true)", "", <<>>))

EditingAmountKey(a, k) ==
    IF k.code = "Char" /\ (IsDigit(k.c) \/ k.c = ".")
    THEN Handled([a EXCEPT !.send_state.amount = Append(@, k.c)], "Ok(true)", "", <<>>)
    ELSE IF k.code = "Backspace"
    THEN Handled([a EXCEPT !.send_state.amount = Pop(@)], "Ok(true)", "", <<>>)
    ELSE IF k.code = "Enter"
    THEN IF a.send_state.amount # <<>>
         THEN Handled([a EXCEPT !.send_state.input_mode = "Confirming",
                                !.send_state.error = None], "Ok(true)", "", <<>>)
         ELSE Handled(a, "Ok(true)", "", <<>>)
    ELSE IF k.code = "Esc"
    THEN Handled([a EXCEPT !.send_state.input_mode = "EditingRecipient"],
                 "Ok(true)", "", <<>>)
    ELSE Handled(a, "Ok(true)", "", <<>>)

(* Mutant: going back from the confirmation stage empties the amount. *)
ConfirmingKey_NoClearsAmount(a, k, gw) ==
    IF k.code = "Char" /\ k.c \in {"y", "Y"}
    THEN LET sending == [a EXCEPT !.send_state.status = Some("Sending transaction...")]
             sent == send_transaction(sending, gw)
         IN  IF sent.ok
             THEN Handled(sent.app, "Ok(false)", "", sent.calls)
             ELSE Handled(sent.app, "Err", sent.err, sent.calls)
    ELSE IF (k.code = "Char" /\ k.c \in {"n", "N"}) \/ k.code = "Esc"
    THEN Handled([a EXCEPT !.send_state.input_mode = "EditingAmount",
                           !.send_state.amount = <<>>], "Ok(true)", "", <<>>)
    ELSE Handled(a, "Ok(true)", "", <<>>)

(* Mutant: Backspace at the confirmation stage still edits the amount. *)
ConfirmingKey_BackspaceEdits(a, k, gw) ==
    IF k.code = "Char" /\ k.c \in {"y", "Y"}
    THEN LET sending == [a EXCEPT !.send_state.status = Some("Sending transaction...")]
             sent == send_transaction(sending, gw)
         IN  IF sent.ok
             THEN Handled(sent.app, "Ok(false)", "", sent.calls)
             ELSE Handled(sent.app, "Err", sent.err, sent.calls)
    ELSE IF (k.code = "Char" /\ k.c \in {"n", "N"}) \/ k.code = "Esc"
    THEN Handled([a EXCEPT !.send_state.input_mode = "EditingAmount"],
                 "Ok(true)", "", <<>>)
    ELSE IF k.code = "Backspace"
    THEN Handled([a EXCEPT !.send_state.amount = Pop(@)], "Ok(true)", "", <<>>)
    ELSE Handled(a, "Ok(true)", "", <<>>)

(* Mutant: Enter at the confirmation stage submits as yes does. *)
ConfirmingKey_EnterSubmits(a, k, gw) ==
    IF (k.code = "Char" /\ k.c \in {"y", "Y"}) \/ k.code = "Enter"
    THEN LET sending == [a EXCEPT !.send_state.status = Some("Sending transaction...")]
             sent == send_transaction(sending, gw)
         IN  IF sent.ok
             THEN Handled(sent.app, "Ok(false)", "", sent.calls)
             ELSE Handled(sent.app, "Err", sent.err, sent.calls)
    ELSE IF (k.code = "Char" /\ k.c \in {"n", "N"}) \/ k.code = "Esc"
    THEN Handled([a EXCEPT !.send_state.input_mode = "EditingAmount"],
                 "Ok(true)", "", <<>>)
    ELSE Handled(a, "Ok(true)", "", <<>>)

ConfirmingKey(a, k, gw) ==
    IF k.code = "Char" /\ k.c \in {"y", "Y"}
    THEN LET sending == [a EXCEPT !.send_state.status = Some("Sending transaction...")]
             sent == send_transaction(sending, gw)
         IN  IF sent.ok
             THEN Handled(sent.app, "Ok(false)", "", sent.calls)
             ELSE Handled(sent.app, "Err", sent.err, sent.calls)
    ELSE IF (k.code = "Char" /\ k.c \in {"n", "N"}) \/ k.code = "Esc"
    THEN Handled([a EXCEPT !.send_state.input_mode = "EditingAmount"],
                 "Ok(true)", "", <<>>)
    ELSE Handled(a, "Ok(true)", "", <<>>)

handle_send_input(a, k, gw) ==
    CASE a.send_state.input_mode = "EditingRecipient" -> EditingRecipientKey(a, k)
      [] a.send_state.input_mode = "EditingAmount" -> EditingAmountKey(a, k)
      [] a.send_state.input_mode = "Confirming" -> ConfirmingKey(a, k, gw)

(* Mutant: an Err of the handler leaves the flow as Ok(false) does, keeping the error. *)
SendArm_ExitOnErr(a, k, gw) ==
    LET h == handle_send_input(a, k, gw)
    IN  IF h.ret = "Ok(false)"
        THEN [h EXCEPT !.app = [h.app EXCEPT !.state = "Wallet",
                                             !.send_state = SendStateDefault]]
        ELSE IF h.ret = "Err"
        THEN [h EXCEPT !.app = [h.app EXCEPT
                !.state = "Wallet",
                !.send_state = [SendStateDefault EXCEPT !.error = Some(h.err)]]]
        ELSE h

(* Mutant: an Err of the handler empties the request and stays in the flow. *)
SendArm_ResetOnErr(a, k, gw) ==
    LET h == handle_send_input(a, k, gw)
    IN  IF h.ret = "Ok(false)"
        THEN [h EXCEPT !.app = [h.app EXCEPT !.state = "Wallet",
                                             !.send_state = SendStateDefault]]
        ELSE IF h.ret = "Err"
        THEN [h EXCEPT !.app = [h.app EXCEPT
                !.send_state = [SendStateDefault EXCEPT !.error = Some(h.err)]]]
        ELSE h

(* run_app, the arm for AppState::Send: what it makes of the handler's result. *)
SendArm(a, k, gw) ==
    LET h == handle_send_input(a, k, gw)
    IN  IF h.ret = "Ok(false)"
        THEN [h EXCEPT !.app = [h.app EXCEPT !.state = "Wallet",
                                             !.send_state = SendStateDefault]]
        ELSE IF h.ret = "Err"
        THEN [h EXCEPT !.app = [h.app EXCEPT !.send_state.error = Some(h.err)]]
        ELSE h

(* run_app, the Enter arm of the menu. *)
MenuEnter(a, gw) ==
    CASE a.selected_menu_item = 0 -> Handled([a EXCEPT !.state = "Home"], "menu", "", <<>>)
      [] a.selected_menu_item = 1 ->
            LET r == refresh_balance(a, gw)
            IN  Handled([r.app EXCEPT !.state = "Wallet"], "menu", "", r.calls)
      [] a.selected_menu_item = 2 ->
            Handled([a EXCEPT !.send_state = SendStateDefault, !.state = "Send"],
                    "menu", "", <<>>)
      [] a.selected_menu_item = 3 -> Handled([a EXCEPT !.state = "Receive"], "menu", "", <<>>)
      [] a.selected_menu_item = 4 ->
            Handled([a EXCEPT !.state = "Transactions"], "menu", "", <<>>)
      [] a.selected_menu_item = 5 -> Handled([a EXCEPT !.state = "Settings"], "menu", "", <<>>)
      [] OTHER -> Handled([a EXCEPT !.state = "Home"], "menu", "", <<>>)

(* run_app, the match on key.code outside the send flow ('q' is QuitKey). *)
MenuArm(a, k, gw) ==
    IF k.code = "Char" /\ k.c = "r" /\ a.state = "Wallet"
    THEN LET r == refresh_balance(a, gw) IN Handled(r.app, "menu", "", r.calls)
    ELSE IF k.code = "Esc" /\ a.state = "Receive"
    THEN Handled([a EXCEPT !.state = "Wallet"], "menu", "", <<>>)
    ELSE IF k.code = "Up"
    THEN Handled(IF a.selected_menu_item > 0
                 THEN [a EXCEPT !.selected_menu_item = @ - 1] ELSE a, "menu", "", <<>>)
    ELSE IF k.code = "Down"
    THEN Handled(IF a.selected_menu_item < 5
                 THEN [a EXCEPT !.selected_menu_item = @ + 1] ELSE a, "menu", "", <<>>)
    ELSE IF k.code = "Enter"
    THEN MenuEnter(a, gw)
    ELSE Handled(a, "menu", "", <<>>)

(* Mutant: render_send without its error line. *)
ui_NoError(a) ==
    [view |-> a.state,
     input_mode |-> IF a.state = "Send" THEN a.send_state.input_mode ELSE "",
     error |-> None,
     status |-> IF a.state = "Send" THEN a.send_state.status ELSE None]

(* ui: what one redraw shows of the send state (render_send shows error and *)
(* status; no other view does).                                             *)
ui(a) ==
    [view |-> a.state,
     input_mode |-> IF a.state = "Send" THEN a.send_state.input_mode ELSE "",
     error |-> IF a.state = "Send" THEN a.send_state.error ELSE None,
     status |-> IF a.state = "Send" THEN a.send_state.status ELSE None]

Blank == [view |-> "", input_mode |-> "", error |-> None, status |-> None]

(***************************************************************************)
(* The program: main's startup refresh, then run_app's loop of redraw and  *)
(* event.                                                                  *)
(***************************************************************************)
Init ==
    /\ app = AppNew
    /\ pc = "startup"
    /\ key = NoKey
    /\ screen = Blank
    /\ calls = <<>>
    /\ result = ""
    /\ pending = <<>>
    /\ inflight = 0

(* main: let _ = app.refresh_balance().await; then run_app *)
Startup ==
    /\ pc = "startup"
    /\ \E gw \in Gateways :
        LET r == refresh_balance(app, gw)
        IN  /\ app' = r.app
            /\ calls' = r.calls
    /\ result' = "startup"
    /\ pc' = "draw"
    /\ UNCHANGED <<key, screen>>
    /\ UNCHANGED <<pending, inflight>>

(* terminal.draw(|f| ui(f, &app)) *)
Draw ==
    /\ pc = "draw"
    /\ screen' = ui(app)
    /\ pc' = "read"
    /\ key' = NoKey
    /\ calls' = <<>>
    /\ result' = ""
    /\ UNCHANGED app
    /\ UNCHANGED <<pending, inflight>>

Yes == {KeyChar("y"), KeyChar("Y")}

(* The events that reach the RPC node; every other event sees no reply. *)
Consults(a, k) ==
    \/ a.state = "Send" /\ a.send_state.input_mode = "Confirming"
            /\ k.code = "Char" /\ k.c \in {"y", "Y"}
    \/ a.state = "Wallet" /\ k.code = "Char" /\ k.c = "r"
    \/ a.state # "Send" /\ k.code = "Enter" /\ a.selected_menu_item = 1

NoReply == [blockhash |-> [ok |-> FALSE, hash |-> ""],
            send |-> [ok |-> FALSE, signature |-> "", err |-> "NetworkError"],
            balance |-> [ok |-> FALSE, lamports |-> 0]]

Replies(a, k) == IF Consults(a, k) THEN Gateways ELSE {NoReply}

(* The text fields are unbounded in the code; the model stops typing at the bound. *)
WithinBounds(a, k) ==
    a.state = "Send" /\ k.code = "Char" =>
        /\ a.send_state.input_mode = "EditingRecipient" =>
                Len(a.send_state.recipient) < MaxRecipientLen
        /\ a.send_state.input_mode = "EditingAmount" /\ (IsDigit(k.c) \/ k.c = ".") =>
                Len(a.send_state.amount) < MaxAmountLen

(* A key event while the send flow is open. *)
SendKey ==
    /\ pc = "read"
    /\ app.state = "Send"
    /\ \E k \in Keys : \E gw \in Replies(app, k) :
        /\ WithinBounds(app, k)
        /\ LET h == SendArm(app, k, gw)
           IN  /\ app' = h.app
               /\ calls' = h.calls
               /\ result' = h.ret
               /\ key' = k
    /\ pc' = "draw"
    /\ UNCHANGED screen
    /\ UNCHANGED <<pending, inflight>>

(* A key event in any other view, 'q' excepted. *)
MenuKey ==
    /\ pc = "read"
    /\ app.state # "Send"
    /\ \E k \in Keys \ {KeyChar("q")} : \E gw \in Replies(app, k) :
        LET h == MenuArm(app, k, gw)
        IN  /\ app' = h.app
            /\ calls' = h.calls
            /\ result' = h.ret
            /\ key' = k
    /\ pc' = "draw"
    /\ UNCHANGED screen
    /\ UNCHANGED <<pending, inflight>>

(* KeyCode::Char('q') => return Ok(()) *)
QuitKey ==
    /\ pc = "read"
    /\ app.state # "Send"
    /\ key' = KeyChar("q")
    /\ result' = "quit"
    /\ pc' = "done"
    /\ UNCHANGED <<app, screen, calls>>
    /\ UNCHANGED <<pending, inflight>>

(* An event that is no key (resize, mouse): the loop redraws. *)
OtherEvent ==
    /\ pc = "read"
    /\ pc' = "draw"
    /\ UNCHANGED <<app, key, screen, calls, result>>
    /\ UNCHANGED <<pending, inflight>>

Next == Startup \/ Draw \/ SendKey \/ MenuKey \/ QuitKey \/ OtherEvent

Spec == Init /\ [][Next]_vars

(***************************************************************************)
(* The confirmation step on its own: the send flow stands at the           *)
(* confirmation stage with the address of PubkeyBytes zero bytes as the    *)
(* recipient and any amount text of the model, and only yes is pressed.    *)
(***************************************************************************)
InitAmount ==
    /\ \E t \in AmountTexts \ {<<>>} :
            app = [AppNew EXCEPT
                        !.state = "Send",
                        !.selected_menu_item = 1,
                        !.send_state.recipient = [i \in 1..PubkeyBytes |-> "1"],
                        !.send_state.amount = t,
                        !.send_state.input_mode = "Confirming"]
    /\ pc = "draw"
    /\ key = NoKey
    /\ screen = Blank
    /\ calls = <<>>
    /\ result = ""
    /\ pending = <<>>
    /\ inflight = 0

YesKey ==
    /\ pc = "read"
    /\ app.state = "Send"
    /\ app.send_state.input_mode = "Confirming"
    /\ \E k \in Yes \cap Keys : \E gw \in Replies(app, k) :
        LET h == SendArm(app, k, gw)
        IN  /\ app' = h.app
            /\ calls' = h.calls
            /\ result' = h.ret
            /\ key' = k
    /\ pc' = "draw"
    /\ UNCHANGED screen
    /\ UNCHANGED <<pending, inflight>>

NextAmount == Draw \/ YesKey

SpecAmount == InitAmount /\ [][NextAmount]_vars

(***************************************************************************)
(* The loop with the terminal's input buffer and the blocking RPC client.  *)
(* Keys are typed at any time and wait in `pending`; event::read() takes   *)
(* the oldest.  A handler that consults the node blocks in it (pc is       *)
(* "await", `inflight` counts the handlers blocked) until the replies have *)
(* come, and the loop reads no event before the handler has returned.      *)
(***************************************************************************)
StepKeys ==
    {KeyChar("1"), KeyChar("y"), KeyChar("n"),
     KeyCode("Enter"), KeyCode("Down"), KeyCode("Backspace")}

(* Mutant: events are read while a handler is blocked in the node. *)
ReadsEvents_WhileBlocked == pc \in {"read", "await"}

(* event::read() is reached only at the top of the loop, after the draw. *)
ReadsEvents == pc = "read"

(* The arm of run_app that handles key k. *)
Arm(a, k, gw) == IF a.state = "Send" THEN SendArm(a, k, gw) ELSE MenuArm(a, k, gw)

(* A key is typed. *)
TypeKey ==
    /\ pc # "done"
    /\ Len(pending) < MaxPending
    /\ \E k \in StepKeys : pending' = Append(pending, k)
    /\ UNCHANGED <<app, pc, key, screen, calls, result, inflight>>

(* event::read() returns a key whose handler makes no call of the node. *)
ReadKey ==
    /\ ReadsEvents
    /\ pending # <<>>
    /\ ~Consults(app, Head(pending))
    /\ WithinBounds(app, Head(pending))
    /\ LET h == Arm(app, Head(pending), NoReply)
       IN  /\ app' = h.app
           /\ calls' = h.calls
           /\ result' = h.ret
    /\ key' = Head(pending)
    /\ pending' = Tail(pending)
    /\ pc' = "draw"
    /\ UNCHANGED <<screen, inflight>>

(* event::read() returns a key whose handler goes to the node and blocks. *)
StartCall ==
    /\ ReadsEvents
    /\ pending # <<>>
    /\ Consults(app, Head(pending))
    /\ key' = Head(pending)
    /\ pending' = Tail(pending)
    /\ inflight' = inflight + 1
    /\ pc' = "await"
    /\ UNCHANGED <<app, screen, calls, result>>

(* The node has replied to every call of the blocked handler, which returns. *)
Complete ==
    /\ pc = "await"
    /\ \E gw \in Gateways :
        LET h == Arm(app, key, gw)
        IN  /\ app' = h.app
            /\ calls' = h.calls
            /\ result' = h.ret
    /\ inflight' = inflight - 1
    /\ pc' = "draw"
    /\ UNCHANGED <<key, screen, pending>>

NextSteps == Startup \/ Draw \/ TypeKey \/ ReadKey \/ StartCall \/ Complete

SpecSteps == Init /\ [][NextSteps]_vars

(***************************************************************************)
(* Vocabulary of the properties.                                           *)
(***************************************************************************)
Enter == KeyCode("Enter")

(* This step handles a key of ks with the send flow at stage mode. *)
PressedIn(mode, ks) ==
    /\ pc = "read"
    /\ pc' = "draw"
    /\ app.state = "Send"
    /\ app.send_state.input_mode = mode
    /\ key' \in ks

(* The last handled event was a key of ks, and the handler returned ret. *)
LastHandled(ks, ret) == pc = "draw" /\ key \in ks /\ result = ret

(* cs holds a send_and_confirm_transaction that returned a signature. *)
Submitted(cs) ==
    \E i \in 1..Len(cs) : cs[i].op = "send_and_confirm_transaction" /\ cs[i].ok

(* cs ends with a get_balance that failed. *)
FailedRefresh(cs) ==
    cs # <<>> /\ cs[Len(cs)].op = "get_balance" /\ ~cs[Len(cs)].ok

(***************************************************************************)
(* C1.  Enter at the recipient stage moves to the amount stage if and only *)
(* if the recipient text decodes as an address; text that fails to decode  *)
(* leaves the flow at the recipient stage.                                 *)
(* The code advances on any non-empty text, so this is violated.           *)
(***************************************************************************)
C1_AcceptIffRecipientValid ==
    [][PressedIn("EditingRecipient", {Enter}) =>
        /\ (app'.send_state.input_mode = "EditingAmount")
                <=> PubkeyFromStr(app.send_state.recipient).ok
        /\ ~PubkeyFromStr(app.send_state.recipient).ok =>
                app'.state = "Send" /\ app'.send_state.input_mode = "EditingRecipient"
      ]_vars

C4_StatusErrorExclusive ==
    ~(IsSome(app.send_state.status) /\ IsSome(app.send_state.error))

(***************************************************************************)
(* C5.  Every yes whose confirmation step fails sets a non-empty error     *)
(* message, and the redraw that follows shows it on the send screen.       *)
(***************************************************************************)
C5_ErrorShown ==
    [][/\ PressedIn("Confirming", Yes) /\ ~Submitted(calls') =>
            /\ IsSome(app'.send_state.error)
            /\ app'.send_state.error # Some("")
            /\ app'.state = "Send"
       /\ LastHandled(Yes, "Err") /\ pc' = "read" =>
            /\ screen'.view = "Send"
            /\ IsSome(screen'.error)
            /\ screen'.error = app.send_state.error
      ]_vars

(* The redraw after a failed blockhash fetch shows its message. *)
C5_Witness ==
    /\ pc = "read"
    /\ screen.view = "Send"
    /\ screen.input_mode = "Confirming"
    /\ screen.error = Some("Failed to get recent blockhash")

(***************************************************************************)
(* C6.  last_tx_signature changes only in a yes at the confirmation stage  *)
(* whose send_and_confirm_transaction returned a signature, and then to    *)
(* that signature; failing attempts and all other keys leave it alone.     *)
(***************************************************************************)
C6_SignatureOnlyOnSuccess ==
    [][app'.last_tx_signature # app.last_tx_signature =>
        /\ PressedIn("Confirming", Yes)
        /\ Submitted(calls')
        /\ app'.last_tx_signature = Some(calls'[2].signature)
      ]_vars

(* A failed attempt after an earlier success: the earlier signature stands. *)
C6_Witness ==
    /\ LastHandled(Yes, "Err")
    /\ IsSome(app.last_tx_signature)

(***************************************************************************)
(* C7.  Whenever the send flow is entered it is at the recipient stage     *)
(* with empty recipient and amount and neither status nor error.           *)
(***************************************************************************)
C7_EntryIsFresh ==
    [][app.state # "Send" /\ app'.state = "Send" =>
        /\ app'.send_state.input_mode = "EditingRecipient"
        /\ app'.send_state.recipient = <<>>
        /\ app'.send_state.amount = <<>>
        /\ app'.send_state.status = None
        /\ app'.send_state.error = None
      ]_vars

(* The flow has been entered again after a submission. *)
C7_Witness ==
    /\ LastHandled({Enter}, "menu")
    /\ app.state = "Send"
    /\ IsSome(app.last_tx_signature)

(***************************************************************************)
(* C8.  A yes whose recipient does not decode or whose amount does not     *)
(* parse makes no call to the RPC node.                                    *)
(***************************************************************************)
C8_ValidatorErrorsMakeNoCall ==
    [][/\ PressedIn("Confirming", Yes)
       /\ \/ ~PubkeyFromStr(app.send_state.recipient).ok
          \/ ~ParseF64(app.send_state.amount)
       => calls' = <<>> /\ result' = "Err"
      ]_vars

(* A yes on a recipient that does not decode has failed without a call. *)
C8_Witness ==
    /\ LastHandled(Yes, "Err")
    /\ app.send_state.error = Some("Invalid recipient address")
    /\ calls = <<>>

(***************************************************************************)
(* C9.  A successful submission is followed by one get_balance query, and  *)
(* when that query answers, the stored balance is the answer converted     *)
(* from lamports to SOL.                                                   *)
(***************************************************************************)
C9_BalanceFromFreshQuery ==
    [][PressedIn("Confirming", Yes) /\ Submitted(calls') =>
        /\ Len(calls') = 3
        /\ calls'[2].op = "send_and_confirm_transaction"
        /\ calls'[3].op = "get_balance"
        /\ calls'[3].ok =>
            /\ app'.balance.sol = calls'[3].lamports \div LAMPORTS_PER_SOL
            /\ app'.balance.nano = calls'[3].lamports % LAMPORTS_PER_SOL
      ]_vars

(* After a submission the node reported 1.5 SOL and that is the stored balance. *)
C9_Witness ==
    /\ LastHandled(Yes, "Ok(false)")
    /\ Len(calls) = 3
    /\ calls[3] = Call("get_balance", TRUE, 1500000000, "")
    /\ app.balance = [sol |-> 1, nano |-> 500000000]

(***************************************************************************)
(* C10.  A failed get_balance leaves the stored balance as it was and      *)
(* surfaces nothing: at startup and on 'r' the App is unchanged, entering  *)
(* the wallet view changes the view alone, and a submission still ends in  *)
(* the wallet overview with its signature recorded and no error.           *)
(***************************************************************************)
C10_RefreshFailureIsSilent ==
    [][FailedRefresh(calls') =>
        /\ app'.balance = app.balance
        /\ app'.send_state.error = None
        /\ pc' = "draw"
        /\ pc = "startup" => app' = app
        /\ pc = "read" /\ key' = KeyChar("r") => app' = app
        /\ pc = "read" /\ key' = Enter => app' = [app EXCEPT !.state = "Wallet"]
        /\ pc = "read" /\ key' \in Yes =>
            /\ result' = "Ok(false)"
            /\ app'.state = "Wallet"
            /\ app'.send_state.status = None
            /\ app'.last_tx_signature = Some(calls'[2].signature)
      ]_vars

(* The refresh after a submission failed and the non-zero balance is kept. *)
C10_Witness ==
    /\ LastHandled(Yes, "Ok(false)")
    /\ FailedRefresh(calls)
    /\ app.balance = [sol |-> 1, nano |-> 500000000]

(***************************************************************************)
(* C11.  No (n/N) or Esc at the confirmation stage moves to the amount     *)
(* stage with recipient and amount unchanged and without a call to the RPC *)
(* node.                                                                   *)
(***************************************************************************)
No == {KeyChar("n"), KeyChar("N"), KeyCode("Esc")}

C11_NoReturnsToAmount ==
    [][PressedIn("Confirming", No) =>
        /\ app'.state = "Send"
        /\ app'.send_state.input_mode = "EditingAmount"
        /\ app'.send_state.amount = app.send_state.amount
        /\ app'.send_state.recipient = app.send_state.recipient
        /\ calls' = <<>>
      ]_vars

(* No was pressed on the confirmation screen and the amount is still there. *)
C11_Witness ==
    /\ LastHandled(No, "Ok(true)")
    /\ screen.input_mode = "Confirming"
    /\ app.send_state.input_mode = "EditingAmount"
    /\ app.send_state.amount # <<>>

(***************************************************************************)
(* C12.  Enter on an empty recipient at the recipient stage, or on an      *)
(* empty amount at the amount stage, changes nothing of the App and keeps  *)
(* the flow open.                                                          *)
(***************************************************************************)
C12_EnterOnEmptyChangesNothing ==
    [][/\ PressedIn("EditingRecipient", {Enter}) /\ app.send_state.recipient = <<>> =>
            app' = app /\ result' = "Ok(true)" /\ calls' = <<>>
       /\ PressedIn("EditingAmount", {Enter}) /\ app.send_state.amount = <<>> =>
            app' = app /\ result' = "Ok(true)" /\ calls' = <<>>
      ]_vars

(* Enter was pressed on the amount screen with no amount typed. *)
C12_Witness ==
    /\ LastHandled({Enter}, "Ok(true)")
    /\ screen.input_mode = "EditingAmount"
    /\ app.send_state.input_mode = "EditingAmount"
    /\ app.send_state.amount = <<>>

(***************************************************************************)
(* C13.  A key handled in the send flow leaves the stage as it is or makes *)
(* one of these moves: recipient to amount and amount to confirmation on   *)
(* Enter, confirmation to amount on no or Esc, amount to recipient on Esc, *)
(* out of the flow on Esc at the recipient stage or on yes at the          *)
(* confirmation stage.                                                     *)
(***************************************************************************)
C13_StageMoves ==
    [][pc = "read" /\ app.state = "Send" =>
        LET from == app.send_state.input_mode
            to == app'.send_state.input_mode
        IN  \/ app'.state = "Send" /\ to = from
            \/ app'.state = "Send" /\ key' = Enter
                    /\ from = "EditingRecipient" /\ to = "EditingAmount"
            \/ app'.state = "Send" /\ key' = Enter
                    /\ from = "EditingAmount" /\ to = "Confirming"
            \/ app'.state = "Send" /\ key' \in No
                    /\ from = "Confirming" /\ to = "EditingAmount"
            \/ app'.state = "Send" /\ key' = KeyCode("Esc")
                    /\ from = "EditingAmount" /\ to = "EditingRecipient"
            \/ app'.state = "Wallet" /\ key' = KeyCode("Esc") /\ from = "EditingRecipient"
            \/ app'.state = "Wallet" /\ key' \in Yes /\ from = "Confirming"
      ]_vars

(* Esc on the amount screen has gone back to the recipient stage. *)
C13_Witness ==
    /\ LastHandled({KeyCode("Esc")}, "Ok(true)")
    /\ screen.input_mode = "EditingAmount"
    /\ app.state = "Send"
    /\ app.send_state.input_mode = "EditingRecipient"

(***************************************************************************)
(* C14.  The amount text holds only digits and '.', and at most one '.'.   *)
(* Violated: every '.' typed at the amount stage is appended.              *)
(***************************************************************************)
C14_AmountWellFormed ==
    /\ \A i \in 1..Len(app.send_state.amount) :
            IsDigit(app.send_state.amount[i]) \/ app.send_state.amount[i] = "."
    /\ Count(app.send_state.amount, ".") <= 1

(***************************************************************************)
(* C18.  Enter at the amount stage moves to the confirmation stage if and  *)
(* only if the amount text is non-empty, whether or not it parses; the     *)
(* move keeps recipient and amount, clears the error and calls nothing.    *)
(***************************************************************************)
C18_EnterAdvancesOnNonEmpty ==
    [][PressedIn("EditingAmount", {Enter}) =>
        /\ app'.state = "Send"
        /\ (app'.send_state.input_mode = "Confirming") <=> app.send_state.amount # <<>>
        /\ app.send_state.amount # <<>> =>
            /\ app'.send_state.recipient = app.send_state.recipient
            /\ app'.send_state.amount = app.send_state.amount
            /\ app'.send_state.error = None
            /\ calls' = <<>>
      ]_vars

(* The amount "." does not parse and is at the confirmation stage. *)
C18_Witness ==
    /\ LastHandled({Enter}, "Ok(true)")
    /\ screen.input_mode = "EditingAmount"
    /\ app.send_state.input_mode = "Confirming"
    /\ app.send_state.amount = <<".">>

(***************************************************************************)
(* C20.  get_latest_blockhash and send_and_confirm_transaction are called  *)
(* only in the handling of yes at the confirmation stage.                  *)
(***************************************************************************)
C20_SubmitOnlyOnYes ==
    [][(\E i \in 1..Len(calls') :
            calls'[i].op \in {"get_latest_blockhash", "send_and_confirm_transaction"})
        => PressedIn("Confirming", Yes)
      ]_vars

(* A yes has reached the node: the blockhash fetch was made and failed. *)
C20_Witness ==
    /\ LastHandled(Yes, "Err")
    /\ Len(calls) = 1
    /\ calls[1].op = "get_latest_blockhash"

(***************************************************************************)
(* C15.  For an amount text that is a non-negative decimal the lamports of *)
(* the transfer are floor(value * 1_000_000_000); for any other text yes   *)
(* fails with "Invalid amount".  Violated: the product is computed in f64, *)
(* and the nearest f64 of a decimal such as 4.1 lies below it.             *)
(***************************************************************************)
IsDecimal(s) ==
    /\ \A i \in 1..Len(s) : IsDigit(s[i]) \/ s[i] = "."
    /\ \E i \in 1..Len(s) : IsDigit(s[i])
    /\ Count(s, ".") <= 1

FloorOfValueTimesScale(s) ==
    DivSmall(MulSmall(BitsOf(DecimalDigits(s)), LAMPORTS_PER_SOL),
             Pow(10, FractionDigits(s))).q

C15_ConversionIsFloor ==
    [][PressedIn("Confirming", Yes) /\ PubkeyFromStr(app.send_state.recipient).ok =>
        IF IsDecimal(app.send_state.amount)
        THEN \A i \in 1..Len(calls') :
                calls'[i].op = "send_and_confirm_transaction" =>
                    calls'[i].transfer = FloorOfValueTimesScale(app.send_state.amount)
        ELSE /\ result' = "Err"
             /\ app'.send_state.error = Some("Invalid amount")
             /\ calls' = <<>>
      ]_vars

(***************************************************************************)
(* C16 as stated.  At the recipient stage no key changes the amount text,  *)
(* at the amount stage no key changes the recipient text, and at the       *)
(* confirmation stage no key but a yes that completes changes either.      *)
(* Violated: Esc at the recipient stage leaves the flow and empties both.  *)
(***************************************************************************)
C16_StageFrame ==
    [][pc = "read" /\ app.state = "Send" =>
        /\ app.send_state.input_mode = "EditingRecipient" =>
                app'.send_state.amount = app.send_state.amount
        /\ app.send_state.input_mode = "EditingAmount" =>
                app'.send_state.recipient = app.send_state.recipient
        /\ app.send_state.input_mode = "Confirming" /\ ~(key' \in Yes /\ result' = "Ok(false)") =>
                /\ app'.send_state.amount = app.send_state.amount
                /\ app'.send_state.recipient = app.send_state.recipient
      ]_vars

(***************************************************************************)
(* C16 amended.  The same for every key that keeps the send flow open, and *)
(* the transaction of a yes pays the key that the recipient text on the    *)
(* confirmation screen decodes to.                                         *)
(***************************************************************************)
C16_StageFrameInFlow ==
    [][pc = "read" /\ app.state = "Send" =>
        /\ app'.state = "Send" /\ app.send_state.input_mode = "EditingRecipient" =>
                app'.send_state.amount = app.send_state.amount
        /\ app'.state = "Send" /\ app.send_state.input_mode = "EditingAmount" =>
                app'.send_state.recipient = app.send_state.recipient
        /\ app'.state = "Send" /\ app.send_state.input_mode = "Confirming" =>
                /\ app'.send_state.amount = app.send_state.amount
                /\ app'.send_state.recipient = app.send_state.recipient
        /\ \A i \in 1..Len(calls') :
                calls'[i].op = "send_and_confirm_transaction" =>
                    /\ calls'[i].to = Base58Decode(app.send_state.recipient)
                    /\ Len(calls'[i].to) = PubkeyBytes
      ]_vars

(* A transaction was submitted for the recipient still on the screen. *)
C16_Witness ==
    /\ LastHandled(Yes, "Err")
    /\ Len(calls) = 2
    /\ calls[2].op = "send_and_confirm_transaction"
    /\ calls[2].to = Base58Decode(app.send_state.recipient)
    /\ app.send_state.input_mode = "Confirming"

(***************************************************************************)
(* C19.  A send_and_confirm_transaction call is the second call of its yes, *)
(* after the one get_latest_blockhash call, which succeeded and whose hash  *)
(* the transaction carries; recipient and amount had parsed; and a failed   *)
(* get_latest_blockhash is the only call of its yes.                        *)
(***************************************************************************)
C19_FreshBlockhashPerSubmit ==
    [][/\ \A i \in 1..Len(calls') :
            calls'[i].op = "send_and_confirm_transaction" =>
                /\ i = 2
                /\ calls'[1].op = "get_latest_blockhash"
                /\ calls'[1].ok
                /\ calls'[1].blockhash \in Blockhashes
                /\ calls'[2].blockhash = calls'[1].blockhash
                /\ PubkeyFromStr(app.send_state.recipient).ok
                /\ ParseF64(app.send_state.amount)
       /\ \A i \in 1..Len(calls') :
            calls'[i].op = "get_latest_blockhash" =>
                /\ i = 1
                /\ ~calls'[1].ok => Len(calls') = 1 /\ result' = "Err"
      ]_vars

(* The second yes of a flow was sent with the hash fetched for it. *)
C19_Witness ==
    /\ LastHandled(Yes, "Ok(false)")
    /\ screen.error = Some("Failed to send transaction")
    /\ calls[1].blockhash = "hashB"
    /\ calls[2].blockhash = "hashB"

(***************************************************************************)
(* C17.  At most one handler is blocked in the node at any time; while one *)
(* is, the App is not changed and no typed key is taken from the input     *)
(* buffer until the handler returns; and the calls of one handled key hold *)
(* at most one send_and_confirm_transaction.                               *)
(***************************************************************************)
SendCalls(cs) == {i \in 1..Len(cs) : cs[i].op = "send_and_confirm_transaction"}

C17_OneStepNoKeyMeanwhile ==
    [][/\ inflight' <= 1
       /\ inflight > 0 /\ inflight' >= inflight =>
            /\ app' = app
            /\ Len(pending') >= Len(pending)
            /\ SubSeq(pending', 1, Len(pending)) = pending
       /\ Cardinality(SendCalls(calls')) <= 1
      ]_vars

(* A key was typed while yes was blocked in the node, and has waited there *)
(* until the transaction was sent.                                         *)
C17_Witness ==
    /\ LastHandled(Yes, "Ok(false)")
    /\ Cardinality(SendCalls(calls)) = 1
    /\ pending # <<>>
    /\ inflight = 0

(***************************************************************************)
(* C21.  Whenever the stage is the amount stage or the confirmation stage  *)
(* the recipient text is non-empty, and whenever it is the confirmation    *)
(* stage the amount text is non-empty.                                     *)
(***************************************************************************)
C21_TextsPresentAtLaterStages ==
    /\ app.send_state.input_mode \in {"EditingAmount", "Confirming"} =>
            app.send_state.recipient # <<>>
    /\ app.send_state.input_mode = "Confirming" =>
            app.send_state.amount # <<>>

(* The amount was deleted after going back from the confirmation stage, and *)
(* Enter has then kept the flow at the amount stage.                       *)
C21_Witness ==
    /\ LastHandled({Enter}, "Ok(true)")
    /\ screen.input_mode = "EditingAmount"
    /\ screen.error # None
    /\ app.send_state.input_mode = "EditingAmount"
    /\ app.send_state.amount = <<>>
    /\ app.send_state.recipient # <<>>

====
